---- MODULE Spec2Model ----
(***************************************************************************)
(* The board engine of react-game-2048: src/src/hooks/useGameBoard.ts      *)
(* (the hook useGameBoard and the pure functions it calls),                *)
(* src/src/utils/common.ts (tile index allocator, shuffle, clamp) and the  *)
(* host callbacks of src/js/App/App.jsx.                                   *)
(*                                                                         *)
(* Scheduling.  The hook is single threaded.  An event handler (onMove,    *)
(* onMovePending, a host callback) runs to completion; the state updates   *)
(* it made are then committed and the effects whose dependencies changed   *)
(* run (layout effects first, then passive effects, in declaration order)  *)
(* before the next event is handled.  Each handler and each effect is one  *)
(* action; the "dirty" set holds the effects that still have to run, and   *)
(* the handlers are enabled only when it is empty.                         *)
(*                                                                         *)
(* Math.random() is an input: a draw is a number of thousandths taken from *)
(* RandVals, and one call of createRandomTiles reads its draws from a seed *)
(* (a finite sequence of draws, read cyclically).                          *)
(*                                                                         *)
(* The field Tile.id (a render key built from the index and Date.now()) is *)
(* not read by the engine and is left out of the tile records.             *)
(***************************************************************************)
EXTENDS Integers, Sequences, FiniteSets, TLC

VARIABLES
    rows,             \* prop rows of useGameBoard
    cols,             \* prop cols of useGameBoard
    gridRef,          \* gridRef.current: [0..rows-1 -> [0..cols-1 -> Cell]]
    tiles,            \* React state tiles: the list surfaced to the renderer
    pendingStackRef,  \* pendingStackRef.current: indexes awaiting completion
    moving,           \* React state moving
    pause,            \* prop pause (host state)
    pauseRef,         \* pauseRef.current
    gameStatus,       \* prop gameStatus (host state)
    tileIndex,        \* _tileIndex of utils/common.ts
    scoreDelta,       \* argument of the last addScore call
    dirty,            \* effects that have to run before the next event
    moves,            \* history: moves accepted since the board was reset
    last              \* history: the last handler or effect that ran

vars == <<rows, cols, gridRef, tiles, pendingStackRef, moving, pause, pauseRef,
          gameStatus, tileIndex, scoreDelta, dirty, moves, last>>

----------------------------------------------------------------------------
(* Bounds of the model *)

\* a board takes at most MaxMoves moves between two resets
MaxMoves == 2

\* number of Math.random() draws in a seed
SeedLen == 2

\* the draws of Math.random(), in thousandths
RandVals == {0, 400, 995}

Seeds == [1..SeedLen -> RandVals]

\* the board sizes the host switches between
Dims == {<<2, 2>>, <<1, 2>>}

----------------------------------------------------------------------------
(* Data *)

\* Cell = Tile | undefined
Nil == [index |-> -1, r |-> -1, c |-> -1, isNew |-> FALSE,
        isMerging |-> FALSE, canMerge |-> FALSE, value |-> 0]

\* DIRECTION_MAP (utils/constants): up, down, left, right
Directions == {[r |-> -1, c |-> 0], [r |-> 1, c |-> 0],
               [r |-> 0, c |-> -1], [r |-> 0, c |-> 1]}

Min2(a, b) == IF a < b THEN a ELSE b
Max2(a, b) == IF a > b THEN a ELSE b

clamp(d, min, max) == Max2(Min2(max, d), min)

\* the k-th draw (k = 0, 1, ...) of a seed
Draw(seed, k) == seed[(k % Len(seed)) + 1]

\* faulty variant: the counter is read but not advanced
nextTileIndexSame(ix) == ix

nextTileIndex(ix) == ix + 1

resetTileIndex == 0

createEmptyGrid(R, C) == [r \in 0..(R - 1) |-> [c \in 0..(C - 1) |-> Nil]]

TotalRows(grid) == Cardinality(DOMAIN grid)
TotalCols(grid) == Cardinality(DOMAIN grid[0])

\* faulty variant: the rare value is 6
NewValueSix(rnd) == IF rnd > 990 THEN 6 ELSE 2

\* value: Math.random() > 0.99 ? 4 : 2
NewValue(rnd) == IF rnd > 990 THEN 4 ELSE 2

createNewTile(r, c, ix, rnd) ==
    [index |-> ix, r |-> r, c |-> c, isNew |-> TRUE, canMerge |-> FALSE,
     isMerging |-> FALSE, value |-> NewValue(rnd)]

\* the cells of the grid in row-major order, from the k-th (k = 0, 1, ...)
CellsFrom(R, C, k) ==
    [n \in 1..(R * C - k) |-> [r |-> (k + n - 1) \div C, c |-> (k + n - 1) % C]]

\* faulty variant: every cell counts as empty
IsEmptyCellAny(cell) == TRUE

IsEmptyCell(cell) == cell = Nil

getEmptyCellsLocation(grid) ==
    SelectSeq(CellsFrom(TotalRows(grid), TotalCols(grid), 0),
              LAMBDA p : IsEmptyCell(grid[p.r][p.c]))

\* faulty variant: the exchange writes one of the two places only
SwapHalf(arr, i, j) == [arr EXCEPT ![i] = arr[j]]

Swap(arr, i, j) == [arr EXCEPT ![i] = arr[j], ![j] = arr[i]]

\* shuffle: Fisher-Yates from the last element down; i is the 0-based loop
\* index, k the number of the next draw
RECURSIVE ShuffleFrom(_, _, _, _)
ShuffleFrom(arr, i, seed, k) ==
    IF i <= 0 THEN arr
    ELSE LET j == (Draw(seed, k) * (i + 1)) \div 1000
         IN  ShuffleFrom(Swap(arr, i + 1, j + 1), i - 1, seed, k + 1)

shuffle(arr, seed) == ShuffleFrom(arr, Len(arr) - 1, seed, 0)

\* the number of draws shuffle takes on an array of n elements
ShuffleDraws(n) == IF n > 1 THEN n - 1 ELSE 0

TilesNumber(n, amount) == IF n < amount THEN n ELSE amount

\* .map(({ r, c }) => createNewTile(r, c)): each call takes the next index
\* (nextTileIndex) and the next draw
RECURSIVE NewTilesFrom(_, _, _, _, _)
NewTilesFrom(picked, n, ix, seed, k) ==
    IF n > Len(picked) THEN <<>>
    ELSE <<createNewTile(picked[n].r, picked[n].c, ix, Draw(seed, k))>>
         \o NewTilesFrom(picked, n + 1, nextTileIndex(ix), seed, k + 1)

\* createRandomTiles: the new tiles, in creation order; ix is _tileIndex
createRandomTiles(emptyCells, amount, ix, seed) ==
    LET tilesNumber == TilesNumber(Len(emptyCells), amount)
    IN  IF tilesNumber = 0 THEN <<>>
        ELSE NewTilesFrom(SubSeq(shuffle(emptyCells, seed), 1, tilesNumber),
                          1, ix, seed, ShuffleDraws(Len(emptyCells)))

RECURSIVE PlaceTiles(_, _, _)
PlaceTiles(grid, newTiles, n) ==
    IF n > Len(newTiles) THEN grid
    ELSE PlaceTiles([grid EXCEPT ![newTiles[n].r][newTiles[n].c] = newTiles[n]],
                    newTiles, n + 1)

\* Array.prototype.sort with (t1, t2) => t1.index - t2.index: a stable sort
\* the place of ts[n] in the sorted list: tiles of smaller index come first,
\* tiles of equal index keep their order
SortRank(ts, n) ==
    Cardinality({m \in 1..Len(ts) :
                   \/ ts[m].index < ts[n].index
                   \/ ts[m].index = ts[n].index /\ m <= n})

sortTiles(ts) ==
    [k \in 1..Len(ts) |-> ts[CHOOSE n \in 1..Len(ts) : SortRank(ts, n) = k]]

----------------------------------------------------------------------------
(* Move engine *)

createIndexArray(len) == [i \in 1..len |-> i - 1]

Reverse(arr) == [i \in 1..Len(arr) |-> arr[Len(arr) + 1 - i]]

\* faulty variant: rows and columns are always visited from index 0
createTraversalMapForward(R, C, dir) ==
    [rows |-> createIndexArray(R), cols |-> createIndexArray(C)]

createTraversalMap(R, C, dir) ==
    [rows |-> IF dir.r > 0 THEN Reverse(createIndexArray(R)) ELSE createIndexArray(R),
     cols |-> IF dir.c > 0 THEN Reverse(createIndexArray(C)) ELSE createIndexArray(C)]

\* faulty variant: a cell already flagged canMerge is merged into again
CanMergeIntoFlagged(nextTile, tile) == nextTile.value = tile.value

\* faulty variant: any occupied cell is slid onto
CanMergeIntoAny(nextTile, tile) == TRUE

\* the test of line 193: the occupied next cell can be merged into
CanMergeInto(nextTile, tile) ==
    nextTile.value = tile.value /\ ~nextTile.canMerge

\* the while loop of lines 189-203
RECURSIVE Walk(_, _, _, _)
Walk(grid, tile, pos, dir) ==
    IF pos.nextRow = pos.currRow /\ pos.nextCol = pos.currCol THEN pos
    ELSE LET nextTile == grid[pos.nextRow][pos.nextCol]
         IN  IF nextTile # Nil
             THEN IF CanMergeInto(nextTile, tile)
                  THEN [pos EXCEPT !.currRow = pos.nextRow, !.currCol = pos.nextCol]
                  ELSE pos
             ELSE Walk(grid, tile,
                       [currRow |-> pos.nextRow,
                        currCol |-> pos.nextCol,
                        nextRow |-> clamp(pos.nextRow + dir.r, 0, TotalRows(grid) - 1),
                        nextCol |-> clamp(pos.nextCol + dir.c, 0, TotalCols(grid) - 1)],
                       dir)

\* faulty variant: the relocated tile is never flagged
LandsOnEqualNever(tile, currentTile) == FALSE

\* canMerge of the relocated tile (line 212): tile.value === currentTile?.value
LandsOnEqual(tile, currentTile) ==
    currentTile # Nil /\ tile.value = currentTile.value

\* the body of the traversal for one cell (lines 180-223);
\* st = [grid, tiles, moveStack]
MoveCell(st, row, col, dir) ==
    LET tile == st.grid[row][col]
    IN  IF tile = Nil THEN st
        ELSE
          LET pos == Walk(st.grid, tile,
                          [currRow |-> row,
                           currCol |-> col,
                           nextRow |-> clamp(row + dir.r, 0, TotalRows(st.grid) - 1),
                           nextCol |-> clamp(col + dir.c, 0, TotalCols(st.grid) - 1)],
                          dir)
              currRow == pos.currRow
              currCol == pos.currCol
              currentTile == st.grid[currRow][currCol]
          IN  IF currRow # row \/ currCol # col
              THEN LET updatedTile ==
                           [tile EXCEPT !.r = currRow, !.c = currCol,
                                        !.canMerge = LandsOnEqual(tile, currentTile),
                                        !.isNew = FALSE, !.isMerging = FALSE]
                   IN  [grid |-> [st.grid EXCEPT ![currRow][currCol] = updatedTile,
                                                 ![row][col] = Nil],
                        tiles |-> Append(st.tiles, updatedTile),
                        moveStack |-> Append(st.moveStack, updatedTile.index)]
              ELSE IF currentTile # Nil
              THEN [st EXCEPT !.tiles =
                       Append(@, [currentTile EXCEPT !.isNew = FALSE,
                                                     !.isMerging = FALSE])]
              ELSE st

\* traversal.rows.forEach(row => traversal.cols.forEach(col => ...))
RECURSIVE MoveFrom(_, _, _, _, _)
MoveFrom(st, trav, i, j, dir) ==
    IF i > Len(trav.rows) THEN st
    ELSE IF j > Len(trav.cols) THEN MoveFrom(st, trav, i + 1, 1, dir)
    ELSE MoveFrom(MoveCell(st, trav.rows[i], trav.cols[j], dir), trav, i, j + 1, dir)

moveInDirection(grid, dir) ==
    MoveFrom([grid |-> grid, tiles |-> <<>>, moveStack |-> <<>>],
             createTraversalMap(TotalRows(grid), TotalCols(grid), dir), 1, 1, dir)

----------------------------------------------------------------------------
(* Merge finalizer *)

\* faulty variant: the finalize does not double
MergedTileUndoubled(tile) ==
    [tile EXCEPT !.isMerging = tile.canMerge,
                 !.canMerge = FALSE,
                 !.isNew = FALSE]

\* faulty variant: the finalize leaves canMerge as it is
MergedTileFlagged(tile) ==
    [tile EXCEPT !.value = IF tile.canMerge THEN 2 * tile.value ELSE tile.value,
                 !.isMerging = tile.canMerge,
                 !.isNew = FALSE]

\* the tile written back by lines 132-141
MergedTile(tile) ==
    [tile EXCEPT !.value = IF tile.canMerge THEN 2 * tile.value ELSE tile.value,
                 !.isMerging = tile.canMerge,
                 !.canMerge = FALSE,
                 !.isNew = FALSE]

\* faulty variant: the score takes the value before doubling
ScoreOfOld(tile) == IF tile.canMerge THEN tile.value ELSE 0

\* what lines 145-147 add to score for one tile of the grid
ScoreOf(tile) == IF tile.canMerge THEN 2 * tile.value ELSE 0

\* grid.map(row => row.map(...)) visits the cells in row-major order;
\* acc = [tiles, score]
RECURSIVE MergeFrom(_, _, _, _)
MergeFrom(grid, cells, n, acc) ==
    IF n > Len(cells) THEN acc
    ELSE LET tile == grid[cells[n].r][cells[n].c]
         IN  MergeFrom(grid, cells, n + 1,
                 IF tile # Nil
                 THEN [tiles |-> Append(acc.tiles, MergedTile(tile)),
                       score |-> acc.score + ScoreOf(tile)]
                 ELSE acc)

\* faulty variant: a settle cycle asks for one tile on every board
SettleAmountOne(R, C) == 1

\* the number of tiles a settle cycle asks for (line 157)
SettleAmount(R, C) == IF R * C >= 24 THEN 2 ELSE 1

\* faulty variant: the reset counts of the two sides of the threshold, exchanged
ResetAmountSwapped(R, C) == IF R * C >= 24 THEN 2 ELSE 4

\* the number of tiles a reset asks for (line 238)
ResetAmount(R, C) == IF R * C >= 24 THEN 4 ELSE 2

\* mergeAndCreateNewTiles; ix is _tileIndex, returned as index
mergeAndCreateNewTiles(grid, ix, seed) ==
    LET R == TotalRows(grid)
        C == TotalCols(grid)
        merged == MergeFrom(grid, CellsFrom(R, C, 0), 1, [tiles |-> <<>>, score |-> 0])
        newGrid == [r \in DOMAIN grid |-> [c \in DOMAIN grid[r] |->
                       IF grid[r][c] # Nil THEN MergedTile(grid[r][c]) ELSE Nil]]
        emptyCells == getEmptyCellsLocation(newGrid)
        newTiles == createRandomTiles(emptyCells, SettleAmount(R, C), ix, seed)
    IN  [grid |-> PlaceTiles(newGrid, newTiles, 1),
         tiles |-> merged.tiles \o newTiles,
         score |-> merged.score,
         index |-> ix + Len(newTiles)]

\* resetGameBoard; the index restarts at resetTileIndex
resetGameBoard(R, C, seed) ==
    LET grid == createEmptyGrid(R, C)
        emptyCells == getEmptyCellsLocation(grid)
        newTiles == createRandomTiles(emptyCells, ResetAmount(R, C), resetTileIndex, seed)
    IN  [grid |-> PlaceTiles(grid, newTiles, 1),
         tiles |-> newTiles,
         index |-> resetTileIndex + Len(newTiles)]

----------------------------------------------------------------------------
(* Terminal-state detector *)

isWin(ts) == \E n \in 1..Len(ts) : ts[n].value = 2048

\* faulty variant: only an empty neighbour counts
HasOpenNeighbourEmpty(grid, t, dir) ==
    LET nextRow == clamp(t.r + dir.r, 0, TotalRows(grid) - 1)
        nextCol == clamp(t.c + dir.c, 0, TotalCols(grid) - 1)
    IN  /\ (nextRow # t.r \/ nextCol # t.c)
        /\ grid[nextRow][nextCol] = Nil

\* the test of lines 111-117 for one tile and one direction
HasOpenNeighbour(grid, t, dir) ==
    LET nextRow == clamp(t.r + dir.r, 0, TotalRows(grid) - 1)
        nextCol == clamp(t.c + dir.c, 0, TotalCols(grid) - 1)
    IN  /\ (nextRow # t.r \/ nextCol # t.c)
        /\ (grid[nextRow][nextCol] = Nil \/ grid[nextRow][nextCol].value = t.value)

canGameContinue(grid, ts) ==
    \/ Len(ts) < TotalRows(grid) * TotalCols(grid)
    \/ \E n \in 1..Len(ts) : \E dir \in Directions : HasOpenNeighbour(grid, ts[n], dir)

----------------------------------------------------------------------------
(* The hook useGameBoard and its host *)

Did(op, res) == [op |-> op, res |-> res]

\* faulty variant: the first completion ends the move
StillMovingNever(stack) == FALSE

\* setMoving(pendingStackRef.current.length > 0) of line 284
StillMoving(stack) == Len(stack) > 0

\* faulty variant: a completion empties the stack
PopAll(stack) == <<>>

\* faulty variant: a completion leaves the stack as it is
PopNothing(stack) == stack

\* pendingStackRef.current.pop() of line 283
Pop(stack) == IF Len(stack) = 0 THEN stack ELSE SubSeq(stack, 1, Len(stack) - 1)

\* faulty variant: the guard forgets pause
MoveAcceptedPaused == Len(pendingStackRef) = 0

\* the guard of line 265
MoveAccepted == Len(pendingStackRef) = 0 /\ ~pauseRef

\* a state update re-runs the effects that depend on the state it changed
MovingEffects(next) == IF next # moving THEN {"merge"} ELSE {}
StatusEffects(next) == IF next # gameStatus THEN {"status"} ELSE {}

Init ==
    /\ \E d \in Dims : rows = d[1] /\ cols = d[2]
    /\ gridRef = createEmptyGrid(rows, cols)
    /\ tiles = <<>>
    /\ pendingStackRef = <<>>
    /\ moving = FALSE
    /\ pause = FALSE
    /\ pauseRef = pause
    /\ gameStatus = "running"
    /\ tileIndex = 0
    /\ scoreDelta = 0
    /\ dirty = {"merge", "pause", "reset", "status"}
    /\ moves = 0
    /\ last = Did("init", "mount")

\* onMove (lines 264-280)
OnMove(dir) ==
    /\ dirty = {}
    /\ IF MoveAccepted
       THEN \E res \in {moveInDirection(gridRef, dir)} :
                /\ Len(res.moveStack) > 0 => moves < MaxMoves
                /\ gridRef' = res.grid
                /\ pendingStackRef' = res.moveStack
                /\ IF Len(res.moveStack) > 0
                   THEN /\ moving' = TRUE
                        /\ tiles' = sortTiles(res.tiles)
                        /\ dirty' = MovingEffects(TRUE) \cup {"status"}
                        /\ moves' = moves + 1
                        /\ last' = Did("onMove", "moved")
                   ELSE /\ UNCHANGED <<moving, tiles, dirty, moves>>
                        /\ last' = Did("onMove", "still")
       ELSE /\ UNCHANGED <<gridRef, pendingStackRef, moving, tiles, dirty, moves>>
            /\ last' = Did("onMove", "dropped")
    /\ UNCHANGED <<rows, cols, pause, pauseRef, gameStatus, tileIndex, scoreDelta>>

\* onMovePending (lines 282-285)
OnMovePending ==
    /\ dirty = {}
    /\ pendingStackRef' = Pop(pendingStackRef)
    /\ moving' = StillMoving(pendingStackRef')
    /\ dirty' = MovingEffects(moving')
    /\ last' = Did("onMovePending", IF Len(pendingStackRef) = 0 THEN "idle" ELSE "popped")
    /\ UNCHANGED <<rows, cols, gridRef, tiles, pause, pauseRef, gameStatus,
                   tileIndex, scoreDelta, moves>>

\* the layout effect of lines 287-299, run when moving changed
MergeEffect ==
    /\ "merge" \in dirty
    /\ IF ~moving
       THEN \E seed \in Seeds :
              \E res \in {mergeAndCreateNewTiles(gridRef, tileIndex, seed)} :
                  /\ gridRef' = res.grid
                  /\ tileIndex' = res.index
                  /\ scoreDelta' = res.score
                  /\ tiles' = sortTiles(res.tiles)
                  /\ dirty' = (dirty \ {"merge"}) \cup {"status"}
                  /\ last' = Did("merge", "settled")
       ELSE /\ dirty' = dirty \ {"merge"}
            /\ last' = Did("merge", "moving")
            /\ UNCHANGED <<gridRef, tileIndex, scoreDelta, tiles>>
    /\ UNCHANGED <<rows, cols, pendingStackRef, moving, pause, pauseRef, gameStatus,
                   moves>>

\* the layout effect of lines 301-303, run when pause changed
PauseEffect ==
    /\ "pause" \in dirty
    /\ "merge" \notin dirty
    /\ pauseRef' = pause
    /\ dirty' = dirty \ {"pause"}
    /\ last' = Did("pause", "synced")
    /\ UNCHANGED <<rows, cols, gridRef, tiles, pendingStackRef, moving, pause,
                   gameStatus, tileIndex, scoreDelta, moves>>

\* the effect of lines 305-310, run when rows or cols changed
ResetEffect ==
    /\ "reset" \in dirty
    /\ dirty \cap {"merge", "pause"} = {}
    /\ \E seed \in Seeds :
         \E res \in {resetGameBoard(rows, cols, seed)} :
             /\ gridRef' = res.grid
             /\ tileIndex' = res.index
             /\ tiles' = res.tiles
    /\ gameStatus' = "running"
    /\ dirty' = (dirty \ {"reset"}) \cup {"status"}
    /\ moves' = 0
    /\ last' = Did("reset", "scale")
    /\ UNCHANGED <<rows, cols, pendingStackRef, moving, pause, pauseRef, scoreDelta>>

\* the effect of lines 312-329, run when tiles or gameStatus changed
StatusEffect ==
    /\ dirty = {"status"}
    /\ IF gameStatus = "restart"
       THEN \E seed \in Seeds :
              \E res \in {resetGameBoard(TotalRows(gridRef), TotalCols(gridRef), seed)} :
                  /\ gridRef' = res.grid
                  /\ tileIndex' = res.index
                  /\ tiles' = res.tiles
                  /\ gameStatus' = "running"
                  /\ dirty' = {"status"}
                  /\ moves' = 0
                  /\ last' = Did("reset", "restart")
       ELSE IF gameStatus = "running" /\ isWin(tiles)
       THEN /\ gameStatus' = "win"
            /\ dirty' = {"status"}
            /\ last' = Did("status", "win")
            /\ UNCHANGED <<gridRef, tileIndex, tiles, moves>>
       ELSE IF gameStatus # "lost" /\ ~canGameContinue(gridRef, tiles)
       THEN /\ gameStatus' = "lost"
            /\ dirty' = {"status"}
            /\ last' = Did("status", "lost")
            /\ UNCHANGED <<gridRef, tileIndex, tiles, moves>>
       ELSE /\ dirty' = {}
            /\ last' = Did("status", "none")
            /\ UNCHANGED <<gridRef, tileIndex, tiles, gameStatus, moves>>
    /\ UNCHANGED <<rows, cols, pendingStackRef, moving, pause, pauseRef, scoreDelta>>

\* the host asserts or releases pause
SetPaused(b) ==
    /\ dirty = {}
    /\ b # pause
    /\ pause' = b
    /\ dirty' = {"pause"}
    /\ last' = Did("setPaused", "host")
    /\ UNCHANGED <<rows, cols, gridRef, tiles, pendingStackRef, moving, pauseRef,
                   gameStatus, tileIndex, scoreDelta, moves>>

\* onResetGame (App.jsx, lines 43-45)
OnResetGame ==
    /\ dirty = {}
    /\ gameStatus' = "restart"
    /\ dirty' = StatusEffects("restart")
    /\ last' = Did("onResetGame", "host")
    /\ UNCHANGED <<rows, cols, gridRef, tiles, pendingStackRef, moving, pause,
                   pauseRef, tileIndex, scoreDelta, moves>>

\* onCloseNotification (App.jsx, lines 46-51), for the notification of a
\* game that was won or lost
OnCloseNotification ==
    /\ dirty = {}
    /\ gameStatus \in {"win", "lost"}
    /\ gameStatus' = IF gameStatus = "win" THEN "continue" ELSE "restart"
    /\ dirty' = {"status"}
    /\ last' = Did("onCloseNotification", "host")
    /\ UNCHANGED <<rows, cols, gridRef, tiles, pendingStackRef, moving, pause,
                   pauseRef, tileIndex, scoreDelta, moves>>

\* the host changes the board size (Control's onChangeRow, onChangeCol)
SetScale(R, C) ==
    /\ dirty = {}
    /\ <<R, C>> # <<rows, cols>>
    /\ rows' = R
    /\ cols' = C
    /\ dirty' = {"reset"}
    /\ last' = Did("setScale", "host")
    /\ UNCHANGED <<gridRef, tiles, pendingStackRef, moving, pause, pauseRef,
                   gameStatus, tileIndex, scoreDelta, moves>>

Next ==
    \/ \E dir \in Directions : OnMove(dir)
    \/ OnMovePending
    \/ MergeEffect
    \/ PauseEffect
    \/ ResetEffect
    \/ StatusEffect
    \/ \E b \in BOOLEAN : SetPaused(b)
    \/ OnResetGame
    \/ OnCloseNotification
    \/ \E d \in Dims : SetScale(d[1], d[2])

Spec == Init /\ [][Next]_vars

\* the renderer reports the end of a move it animates
Completion == Len(pendingStackRef) > 0 /\ OnMovePending

----------------------------------------------------------------------------
(* The move and its settle on given boards: the hook at rest on a board,   *)
(* one move left, no host event.                                           *)

BoardDims == {<<1, 4>>, <<4, 1>>, <<2, 2>>}

BoardValues == {2, 4}

\* the number of occupied cells among the first k cells (row-major)
RECURSIVE Rank(_, _)
Rank(vals, k) ==
    IF k = 0 THEN 0 ELSE Rank(vals, k - 1) + (IF vals[k - 1] # 0 THEN 1 ELSE 0)

\* the board with value vals[k] in its k-th cell (0: empty); the indexes are
\* issued in cell order, or in the reverse order, and the youngest tile is
\* the one the last settle spawned
BoardOf(R, C, vals, reversed) ==
    LET n == Rank(vals, R * C)
        IndexAt(k) == IF reversed THEN n - 1 - Rank(vals, k) ELSE Rank(vals, k)
    IN  [r \in 0..(R - 1) |-> [c \in 0..(C - 1) |->
            LET k == r * C + c
            IN  IF vals[k] = 0 THEN Nil
                ELSE [index |-> IndexAt(k), r |-> r, c |-> c,
                      isNew |-> (IndexAt(k) = n - 1), canMerge |-> FALSE,
                      isMerging |-> FALSE, value |-> vals[k]]]]

\* the tiles of a grid, in row-major order
RECURSIVE TilesFrom(_, _, _)
TilesFrom(grid, cells, n) ==
    IF n > Len(cells) THEN <<>>
    ELSE (IF grid[cells[n].r][cells[n].c] # Nil
          THEN <<grid[cells[n].r][cells[n].c]>> ELSE <<>>)
         \o TilesFrom(grid, cells, n + 1)

GridTiles(grid) == TilesFrom(grid, CellsFrom(TotalRows(grid), TotalCols(grid), 0), 1)

InitBoard ==
    \E d \in BoardDims, reversed \in BOOLEAN :
      \E vals \in [0..(d[1] * d[2] - 1) -> {0} \cup BoardValues] :
        /\ Rank(vals, d[1] * d[2]) >= 2
        /\ rows = d[1]
        /\ cols = d[2]
        /\ gridRef = BoardOf(d[1], d[2], vals, reversed)
        /\ tiles = sortTiles(GridTiles(gridRef))
        /\ pendingStackRef = <<>>
        /\ moving = FALSE
        /\ pause = FALSE
        /\ pauseRef = FALSE
        /\ gameStatus = IF canGameContinue(gridRef, tiles) THEN "running" ELSE "lost"
        /\ tileIndex = Rank(vals, d[1] * d[2])
        /\ scoreDelta = 0
        /\ dirty = {}
        /\ moves = MaxMoves - 1
        /\ last = Did("init", "board")

NextBoard ==
    \/ \E dir \in Directions : OnMove(dir)
    \/ OnMovePending
    \/ MergeEffect
    \/ StatusEffect

SpecBoard == InitBoard /\ [][NextBoard]_vars

\* the effects that have to run do run, and the renderer reports every moved
\* tile
FairBoard ==
    /\ SpecBoard
    /\ WF_vars(MergeEffect)
    /\ WF_vars(StatusEffect)
    /\ WF_vars(Completion)

----------------------------------------------------------------------------
(* The spawn counts on boards below and above the threshold of 24 cells:   *)
(* the hook from its mount on a board of one of these sizes, one move.     *)

ScaleDims == {<<1, 1>>, <<1, 23>>, <<4, 6>>}

InitScale ==
    \E d \in ScaleDims :
        /\ rows = d[1]
        /\ cols = d[2]
        /\ gridRef = createEmptyGrid(rows, cols)
        /\ tiles = <<>>
        /\ pendingStackRef = <<>>
        /\ moving = FALSE
        /\ pause = FALSE
        /\ pauseRef = pause
        /\ gameStatus = "running"
        /\ tileIndex = 0
        /\ scoreDelta = 0
        /\ dirty = {"merge", "pause", "reset", "status"}
        /\ moves = 0
        /\ last = Did("init", "mount")

\* one move on each board
NextScale ==
    \/ \E dir \in Directions : moves = 0 /\ OnMove(dir)
    \/ OnMovePending
    \/ MergeEffect
    \/ PauseEffect
    \/ ResetEffect
    \/ StatusEffect

SpecScale == InitScale /\ [][NextScale]_vars

----------------------------------------------------------------------------
(* The session status around a win: the hook at rest on a board that may   *)
(* hold tiles of 1024, the moves of a session and the host's answers to    *)
(* the notifications.                                                      *)

WinDims == {<<1, 2>>, <<1, 3>>, <<2, 2>>}

WinValues == {2, 1024}

InitWin ==
    \E d \in WinDims, reversed \in BOOLEAN :
      \E vals \in [0..(d[1] * d[2] - 1) -> {0} \cup WinValues] :
        /\ Rank(vals, d[1] * d[2]) >= 2
        /\ rows = d[1]
        /\ cols = d[2]
        /\ gridRef = BoardOf(d[1], d[2], vals, reversed)
        /\ tiles = sortTiles(GridTiles(gridRef))
        /\ pendingStackRef = <<>>
        /\ moving = FALSE
        /\ pause = FALSE
        /\ pauseRef = FALSE
        /\ gameStatus = IF canGameContinue(gridRef, tiles) THEN "running" ELSE "lost"
        /\ tileIndex = Rank(vals, d[1] * d[2])
        /\ scoreDelta = 0
        /\ dirty = {}
        /\ moves = 0
        /\ last = Did("init", "board")

NextWin ==
    \/ \E dir \in Directions : OnMove(dir)
    \/ OnMovePending
    \/ MergeEffect
    \/ StatusEffect
    \/ OnCloseNotification
    \/ OnResetGame

SpecWin == InitWin /\ [][NextWin]_vars

----------------------------------------------------------------------------
(* Vocabulary of the properties *)

Cells(grid) == {p \in (DOMAIN grid) \X (DOMAIN grid[0]) : TRUE}

Occupied(grid) == {p \in Cells(grid) : grid[p[1]][p[2]] # Nil}

Area(grid) == TotalRows(grid) * TotalCols(grid)

TileCount(grid) == Cardinality(Occupied(grid))

EmptyCount(grid) == Area(grid) - TileCount(grid)

NewCount(grid) == Cardinality({p \in Occupied(grid) : grid[p[1]][p[2]].isNew})

\* the places of the tile list that hold a tile positioned at (r, c)
TilesAt(ts, r, c) == {n \in 1..Len(ts) : ts[n].r = r /\ ts[n].c = c}

InBounds(grid, t) == t.r \in DOMAIN grid /\ t.c \in DOMAIN grid[0]

PositionsDistinct(ts) ==
    \A i, j \in 1..Len(ts) : i # j => <<ts[i].r, ts[i].c>> # <<ts[j].r, ts[j].c>>

Moved == Did("onMove", "moved")
Still == Did("onMove", "still")
Dropped == Did("onMove", "dropped")
Settled == Did("merge", "settled")

\* no move is in flight and the last move has been finalized
AtRest == ~moving /\ "merge" \notin dirty

----------------------------------------------------------------------------
(* C1 *)

\* C1, as claimed: in every state, and in particular while a move is in
\* flight, the tiles of the tile list have pairwise distinct in-bounds
\* positions, so the list never holds more than rows x cols tiles.
C1_TileListPositionsDistinct ==
    /\ \A n \in 1..Len(tiles) : InBounds(gridRef, tiles[n])
    /\ PositionsDistinct(tiles)
    /\ Len(tiles) <= Area(gridRef)

\* C1, amended: in every state every tile of the grid is positioned at the
\* cell that holds it, the tile list holds in-bounds tiles and no more than
\* rows x cols of them; at rest (no move in flight, the last move finalized)
\* the tile list holds exactly the tiles of the grid, at pairwise distinct
\* positions; while a move is in flight two tiles of the list share a
\* position only if they have the same value and the grid holds one of them
\* there, flagged canMerge.
C1_GridPositionsDistinct ==
    /\ \A p \in Occupied(gridRef) :
          gridRef[p[1]][p[2]].r = p[1] /\ gridRef[p[1]][p[2]].c = p[2]
    /\ \A n \in 1..Len(tiles) : InBounds(gridRef, tiles[n])
    /\ Len(tiles) <= Area(gridRef)
    /\ AtRest =>
          /\ PositionsDistinct(tiles)
          /\ \A n \in 1..Len(tiles) : gridRef[tiles[n].r][tiles[n].c] = tiles[n]
          /\ Len(tiles) = TileCount(gridRef)
    /\ \A i, j \in 1..Len(tiles) :
          (i # j /\ tiles[i].r = tiles[j].r /\ tiles[i].c = tiles[j].c) =>
              /\ tiles[i].value = tiles[j].value
              /\ gridRef[tiles[i].r][tiles[i].c].canMerge
              /\ gridRef[tiles[i].r][tiles[i].c] \in {tiles[i], tiles[j]}

\* a move in flight in which one tile slid onto another: the list holds both
C1_Witness ==
    /\ last = Moved
    /\ ~PositionsDistinct(tiles)
    /\ Len(tiles) = TileCount(gridRef) + 1

----------------------------------------------------------------------------
(* C2 *)

\* the index and value of every tile of a grid
Holdings(grid) == {<<grid[p[1]][p[2]].index, grid[p[1]][p[2]].value>> : p \in Occupied(grid)}

\* C2: a tile merges at most once per move. An accepted move keeps every
\* tile of the grid, with its value, in the tile list; the finalize that
\* follows makes, at every cell, one tile of unchanged value out of one tile
\* of the list, or one tile worth 2v out of exactly two tiles of the list
\* worth v each (so [2,2,2,2] settles to [4,4], never to [8]).
C2_MergeAtMostOnce ==
    [][ /\ last' = Moved =>
              /\ {<<tiles'[n].index, tiles'[n].value>> : n \in 1..Len(tiles')}
                     = Holdings(gridRef)
              /\ Len(tiles') = TileCount(gridRef)
        /\ last' = Settled =>
              \A p \in Cells(gridRef) :
                  LET from == TilesAt(tiles, p[1], p[2])
                      made == gridRef'[p[1]][p[2]]
                  IN  IF from = {} THEN made = Nil \/ made.isNew
                      ELSE /\ made # Nil
                           /\ ~made.isNew
                           /\ \/ /\ Cardinality(from) = 1
                                 /\ ~made.isMerging
                                 /\ \A n \in from : made.value = tiles[n].value
                              \/ /\ Cardinality(from) = 2
                                 /\ made.isMerging
                                 /\ \A n \in from : made.value = 2 * tiles[n].value ]_vars

\* the line [2,2,2,2] settled to [4,4] and one spawned tile
C2_Witness ==
    /\ rows = 1 /\ cols = 4
    /\ last = Settled
    /\ scoreDelta = 8
    /\ TileCount(gridRef) = 3
    /\ \E a, b \in DOMAIN gridRef[0] :
          /\ a # b
          /\ gridRef[0][a].value = 4 /\ gridRef[0][a].isMerging
          /\ gridRef[0][b].value = 4 /\ gridRef[0][b].isMerging

----------------------------------------------------------------------------
(* C3 *)

\* every tile is against the edge in direction dir, or against a tile it
\* cannot merge with
Blocked(grid, dir) ==
    \A p \in Occupied(grid) :
        LET nr == p[1] + dir.r
            nc == p[2] + dir.c
        IN  \/ nr \notin DOMAIN grid
            \/ nc \notin DOMAIN grid[0]
            \/ /\ grid[nr][nc] # Nil
               /\ (grid[nr][nc].value # grid[p[1]][p[2]].value \/ grid[nr][nc].canMerge)

\* C3: a move accepted in a direction in which every tile is blocked changes
\* nothing: grid and tile list unchanged, the pending count zero, no effect
\* scheduled (no finalize, spawn or score addition).
C3_BlockedMoveIsNoOp ==
    [][ \A dir \in Directions :
          (OnMove(dir) /\ Len(pendingStackRef) = 0 /\ ~pause /\ Blocked(gridRef, dir)) =>
              /\ UNCHANGED <<gridRef, tiles, moving, tileIndex, scoreDelta, gameStatus>>
              /\ pendingStackRef' = <<>>
              /\ dirty' = {}
              /\ last' = Still ]_vars

\* a blocked move was taken on a board that holds tiles
C3_Witness ==
    /\ last = Still
    /\ TileCount(gridRef) >= 2
    /\ \E dir \in Directions : Blocked(gridRef, dir)

----------------------------------------------------------------------------
(* C4 *)

\* C4: a directional input that arrives while the pending count is nonzero
\* or pause is asserted is dropped: it changes nothing (there is nothing it
\* could be queued in).
C4_InputDroppedNotQueued ==
    [][ \A dir \in Directions :
          (OnMove(dir) /\ (Len(pendingStackRef) > 0 \/ pause)) =>
              /\ UNCHANGED <<rows, cols, gridRef, tiles, pendingStackRef, moving,
                             pause, pauseRef, gameStatus, tileIndex, scoreDelta,
                             dirty, moves>>
              /\ last' = Dropped ]_vars

\* an input was dropped while a move was in flight
C4_Witness ==
    /\ last = Dropped
    /\ Len(pendingStackRef) > 0
    /\ ~pause

----------------------------------------------------------------------------
(* C5 *)

\* C5, as claimed: right after a reset or restart the pending count is zero
\* (and the hook is not moving), so the next input is accepted.
C5_ResetDiscardsPending ==
    last.op = "reset" => (Len(pendingStackRef) = 0 /\ ~moving)

----------------------------------------------------------------------------
(* C6 *)

\* C6: the finalize step (merge, score, spawn) runs only when the pending
\* count is zero.
C6_FinalizeOnlyAtZero ==
    last = Settled => (Len(pendingStackRef) = 0 /\ ~moving)

\* a finalize that merged tiles, after a move
C6_Witness ==
    /\ last = Settled
    /\ scoreDelta > 0
    /\ moves > 0

----------------------------------------------------------------------------
(* C7 *)

\* C7: when the renderer reports every moved tile, an accepted move that
\* moved k >= 1 tiles is followed by the finalize; each completion takes one
\* off the pending count and nothing else changes the count while it is
\* nonzero (so with fewer than k completions it stays nonzero and input
\* stays dropped); the completion that empties it schedules the finalize,
\* the detector runs right after the finalize of a move, and a move is
\* applied only when the count is zero and no effect is waiting.
C7_MoveSettles ==
    /\ (last = Moved) ~> (last = Settled)
    /\ [][ /\ last' = Moved =>
                 /\ Len(pendingStackRef) = 0 /\ dirty = {}
                 /\ Len(pendingStackRef') >= 1 /\ moving'
           /\ (Len(pendingStackRef) > 0 /\ last'.op # "onMovePending") =>
                 pendingStackRef' = pendingStackRef /\ moving' = moving
           /\ (Len(pendingStackRef) > 0 /\ last'.op = "onMovePending") =>
                 /\ Len(pendingStackRef') = Len(pendingStackRef) - 1
                 /\ ("merge" \in dirty') = (Len(pendingStackRef') = 0)
           /\ (last = Settled /\ moves > 0) => last'.op = "status" ]_vars

\* the detector has run after the finalize of a move
C7_Witness ==
    /\ last.op = "status"
    /\ dirty = {}
    /\ moves > 0
    /\ ~moving
    /\ Len(pendingStackRef) = 0
    /\ NewCount(gridRef) = 1

----------------------------------------------------------------------------
(* C8 *)

\* C8, as claimed: right after a reset the board holds exactly 4 tiles when
\* rows x cols >= 24 and exactly 2 tiles when rows x cols < 24.
C8_ResetCountExact ==
    last.op = "reset" =>
        TileCount(gridRef) = (IF Area(gridRef) >= 24 THEN 4 ELSE 2)

\* C8, amended: right after a reset the board holds min(4, rows x cols)
\* tiles when rows x cols >= 24 and min(2, rows x cols) tiles when
\* rows x cols < 24 (one tile on a board of one cell); right after a settle
\* the board holds 2 new tiles when rows x cols >= 24 and 1 new tile when
\* rows x cols < 24, or fewer and then no cell is empty.
C8_SpawnCounts ==
    /\ last.op = "reset" =>
          TileCount(gridRef) =
              Min2(IF Area(gridRef) >= 24 THEN 4 ELSE 2, Area(gridRef))
    /\ last = Settled =>
          LET want == IF Area(gridRef) >= 24 THEN 2 ELSE 1
          IN  \/ NewCount(gridRef) = want
              \/ NewCount(gridRef) < want /\ EmptyCount(gridRef) = 0

\* a settle after a move on a board of 24 cells spawned two tiles
C8_Witness ==
    /\ Area(gridRef) >= 24
    /\ last = Settled
    /\ moves = 1
    /\ NewCount(gridRef) = 2

----------------------------------------------------------------------------
(* C9 *)

\* C9, as claimed (the Spawner section): a reset spawns 4 tiles when
\* rows x cols < 24 and 2 tiles when rows x cols >= 24; a settle cycle spawns
\* 1 tile when rows x cols < 24 and 2 when rows x cols >= 24 (in both cases
\* no more tiles than the board has empty cells).
C9_SpawnPolicyAsStated ==
    /\ last.op = "reset" =>
          TileCount(gridRef) =
              Min2(IF Area(gridRef) < 24 THEN 4 ELSE 2, Area(gridRef))
    /\ last = Settled =>
          \/ NewCount(gridRef) = (IF Area(gridRef) < 24 THEN 1 ELSE 2)
          \/ EmptyCount(gridRef) = 0

\* C9, amended: a reset issues the indexes 0 .. n-1 to n tiles, where n is
\* min(2, rows x cols) when rows x cols < 24 and 4 when rows x cols >= 24;
\* a settle cycle issues min(1, empty cells) indexes when rows x cols < 24
\* and min(2, empty cells) when rows x cols >= 24.
C9_SpawnPolicy ==
    [][ /\ last'.op = "reset" =>
              /\ tileIndex' = Min2(IF Area(gridRef') < 24 THEN 2 ELSE 4, Area(gridRef'))
              /\ Len(tiles') = tileIndex'
              /\ \A n \in 1..Len(tiles') : tiles'[n].index = n - 1 /\ tiles'[n].isNew
        /\ last' = Settled =>
              tileIndex' - tileIndex =
                  Min2(IF Area(gridRef) < 24 THEN 1 ELSE 2, EmptyCount(gridRef)) ]_vars

\* a reset of a board of fewer than 24 cells spawned two tiles
C9_Witness ==
    /\ last.op = "reset"
    /\ Area(gridRef) = 23
    /\ tileIndex = 2
    /\ TileCount(gridRef) = 2

----------------------------------------------------------------------------
(* C10 *)

\* the sum of the values of the tiles in the cells of S
RECURSIVE SumValues(_, _)
SumValues(grid, S) ==
    IF S = {} THEN 0
    ELSE LET p == CHOOSE q \in S : TRUE
         IN  grid[p[1]][p[2]].value + SumValues(grid, S \ {p})

Flagged(grid) == {p \in Occupied(grid) : grid[p[1]][p[2]].canMerge}

Merging(grid) == {p \in Occupied(grid) : grid[p[1]][p[2]].isMerging}

\* C10: the score a settle cycle passes to addScore is the sum of the doubled
\* values of exactly the tiles flagged canMerge before it (the tiles it
\* leaves flagged isMerging); other tiles and the spawned tiles add nothing,
\* and a settle without a merge adds 0.
C10_ScoreIsSumOfMerges ==
    [][ last' = Settled =>
          /\ scoreDelta' = 2 * SumValues(gridRef, Flagged(gridRef))
          /\ scoreDelta' = SumValues(gridRef', Merging(gridRef'))
          /\ Cardinality(Merging(gridRef')) = Cardinality(Flagged(gridRef)) ]_vars

\* a settle with two merges, 2+2 and 4+4, added 12
C10_Witness ==
    /\ last = Settled
    /\ Cardinality(Merging(gridRef)) = 2
    /\ scoreDelta = 12

----------------------------------------------------------------------------
(* C11 *)

\* the tile at cell p has, in some direction, an in-bounds neighbour cell
\* that is empty or holds an equal value
OpenAt(grid, p) ==
    \E dir \in Directions :
        LET nr == p[1] + dir.r
            nc == p[2] + dir.c
        IN  /\ nr \in DOMAIN grid
            /\ nc \in DOMAIN grid[0]
            /\ (grid[nr][nc] = Nil \/ grid[nr][nc].value = grid[p[1]][p[2]].value)

----------------------------------------------------------------------------
(* C12 *)

\* C12, as claimed: the status is set to win or to lost only from running,
\* never from win, continue, lost or restart.
C12_WinLostOnlyFromRunning ==
    [][ (gameStatus' # gameStatus /\ gameStatus' \in {"win", "lost"}) =>
            gameStatus = "running" ]_vars

----------------------------------------------------------------------------
(* C13 *)

\* the identities of the tiles of a grid
IndexesOf(grid) == {grid[p[1]][p[2]].index : p \in Occupied(grid)}

\* C13: in every state the tiles of the grid have pairwise distinct
\* identities, so have the tiles of the tile list, and all of them were
\* issued by the counter (they are below it). Between two resets the counter
\* never decreases and every tile that enters the grid gets an identity the
\* counter had not issued yet; a reset restarts the counter, so the tiles it
\* creates get the identities 0, 1, ...
C13_IdentitiesIncrease ==
    /\ [](/\ Cardinality(IndexesOf(gridRef)) = TileCount(gridRef)
          /\ \A i, j \in 1..Len(tiles) : i # j => tiles[i].index # tiles[j].index
          /\ \A x \in IndexesOf(gridRef) : x \in 0..(tileIndex - 1)
          /\ \A n \in 1..Len(tiles) : tiles[n].index \in 0..(tileIndex - 1))
    /\ [][ /\ last'.op # "reset" =>
                 /\ tileIndex' >= tileIndex
                 /\ IndexesOf(gridRef') \ IndexesOf(gridRef) = tileIndex..(tileIndex' - 1)
           /\ last'.op = "reset" =>
                 /\ tileIndex' >= 1
                 /\ IndexesOf(gridRef') = 0..(tileIndex' - 1)
                 /\ \A n \in 1..Len(tiles') : tiles'[n].index = n - 1 ]_vars

\* the second settle of a session: the reset issued 0 and 1, the settles 2
\* and 3, and a merge has dropped one identity
C13_Witness ==
    /\ last = Settled
    /\ moves = 2
    /\ tileIndex = 4
    /\ 3 \in IndexesOf(gridRef)
    /\ TileCount(gridRef) = 3

----------------------------------------------------------------------------
(* C14 *)

\* places i and j of the tile list hold the two tiles of a merging pair:
\* i the tile that slid onto the cell (flagged canMerge), j the tile that
\* was there
Pair(ts, i, j) ==
    /\ i # j
    /\ ts[i].r = ts[j].r
    /\ ts[i].c = ts[j].c
    /\ ts[i].canMerge

\* C14, as claimed: the identity of the tile that slid onto is dropped: after
\* the move the cell holds the identity of the tile that was there, flagged
\* canMerge, and after the settle the doubled tile carries that identity.
C14_TargetKeepsIdentity ==
    [][ /\ last' = Moved =>
              \A i, j \in 1..Len(tiles') : Pair(tiles', i, j) =>
                  /\ gridRef'[tiles'[i].r][tiles'[i].c].index = tiles'[j].index
                  /\ gridRef'[tiles'[i].r][tiles'[i].c].canMerge
        /\ last' = Settled =>
              \A i, j \in 1..Len(tiles) : Pair(tiles, i, j) =>
                  /\ gridRef'[tiles[i].r][tiles[i].c].index = tiles[j].index
                  /\ gridRef'[tiles[i].r][tiles[i].c].isMerging ]_vars

\* C14, amended: the identity of the tile that was slid onto is dropped: of
\* two tiles of the list at one position exactly one is flagged canMerge,
\* the one that slid onto the cell, and after the move the cell holds that
\* tile; the other tile is nowhere in the grid; after the settle the doubled
\* tile at the cell carries the identity of the tile that slid onto it.
C14_MoverKeepsIdentity ==
    [][ /\ last' = Moved =>
              \A i, j \in 1..Len(tiles') :
                  (i # j /\ tiles'[i].r = tiles'[j].r /\ tiles'[i].c = tiles'[j].c) =>
                      /\ tiles'[i].canMerge # tiles'[j].canMerge
                      /\ tiles'[i].canMerge =>
                            /\ gridRef'[tiles'[i].r][tiles'[i].c] = tiles'[i]
                            /\ tiles'[j].index \notin IndexesOf(gridRef')
        /\ last' = Settled =>
              \A i, j \in 1..Len(tiles) : Pair(tiles, i, j) =>
                  /\ gridRef'[tiles[i].r][tiles[i].c].index = tiles[i].index
                  /\ gridRef'[tiles[i].r][tiles[i].c].isMerging
                  /\ gridRef'[tiles[i].r][tiles[i].c].value = 2 * tiles[j].value
                  /\ tiles[j].index \notin IndexesOf(gridRef') ]_vars

\* [2, 2] with identities 0 and 1 from the left, moved left and settled:
\* the doubled tile at the left edge carries identity 1
C14_Witness ==
    /\ rows = 1 /\ cols = 4
    /\ last = Settled
    /\ tileIndex = 3
    /\ TileCount(gridRef) = 2
    /\ gridRef[0][0] # Nil
    /\ gridRef[0][0].isMerging
    /\ gridRef[0][0].index = 1

----------------------------------------------------------------------------
(* C15 *)

RECURSIVE IsPowerOfTwo(_)
IsPowerOfTwo(v) == v = 2 \/ (v > 2 /\ v % 2 = 0 /\ IsPowerOfTwo(v \div 2))

\* the tile of the grid with identity ix
TileOf(grid, ix) ==
    LET p == CHOOSE q \in Occupied(grid) : grid[q[1]][q[2]].index = ix
    IN  grid[p[1]][p[2]]

\* C15: in every state every tile of the grid and of the tile list has a
\* value that is a power of two, at least 2. A tile enters the grid with
\* value 2 or 4, and a tile of the grid changes its value only at a
\* finalize, where a tile flagged canMerge is doubled.
C15_ValuesArePowersOfTwo ==
    /\ [](/\ \A p \in Occupied(gridRef) : IsPowerOfTwo(gridRef[p[1]][p[2]].value)
          /\ \A n \in 1..Len(tiles) : IsPowerOfTwo(tiles[n].value))
    /\ [][ \A p \in Occupied(gridRef') :
             LET made == gridRef'[p[1]][p[2]]
             IN  IF last'.op = "reset" \/ made.index \notin IndexesOf(gridRef)
                 THEN made.isNew /\ made.value \in {2, 4}
                 ELSE LET was == TileOf(gridRef, made.index)
                      IN  \/ made.value = was.value /\ ~(last' = Settled /\ was.canMerge)
                          \/ /\ made.value = 2 * was.value
                             /\ last' = Settled
                             /\ was.canMerge ]_vars

\* a tile of 8 merged from two spawned tiles of 4, next to a new tile of 4
C15_Witness ==
    /\ last = Settled
    /\ \E p \in Occupied(gridRef) :
          gridRef[p[1]][p[2]].value = 8 /\ gridRef[p[1]][p[2]].isMerging
    /\ \E p \in Occupied(gridRef) :
          gridRef[p[1]][p[2]].isNew /\ gridRef[p[1]][p[2]].value = 4

----------------------------------------------------------------------------
(* C16 *)

\* C16: every finalize clears canMerge, and whenever a directional input
\* can be accepted (no effect waiting, pending count zero, not paused), and
\* whenever one is accepted, no tile of the grid is flagged canMerge.
C16_NoStaleCanMerge ==
    /\ [](/\ last = Settled => Flagged(gridRef) = {}
          /\ (dirty = {} /\ MoveAccepted) => Flagged(gridRef) = {})
    /\ [][ last' \in {Moved, Still} => Flagged(gridRef) = {} ]_vars

\* a second move was accepted after a settle that merged
C16_Witness ==
    /\ last = Moved
    /\ moves = 2
    /\ scoreDelta > 0
    /\ Flagged(gridRef) # {}

----------------------------------------------------------------------------
(* C17 *)

\* the identities of the tiles of the old grid that the tile list ts shows
\* at another position
Relocated(grid, ts) ==
    {ts[n].index : n \in {m \in 1..Len(ts) :
        \E p \in Occupied(grid) :
            /\ grid[p[1]][p[2]].index = ts[m].index
            /\ <<ts[m].r, ts[m].c>> # p}}

\* C17: an accepted move sets the pending stack to the identities of exactly
\* the tiles whose position changed, one entry each; a completion on a
\* non-empty stack takes exactly one entry off; a completion on an empty
\* stack changes nothing (no finalize, spawn or score follows from it); the
\* count is never negative.
C17_PendingCountExact ==
    [][ /\ last' \in {Moved, Still} =>
              /\ Len(pendingStackRef') = Cardinality(Relocated(gridRef, tiles'))
              /\ {pendingStackRef'[n] : n \in 1..Len(pendingStackRef')}
                    = Relocated(gridRef, tiles')
        /\ last' = Did("onMovePending", "popped") =>
              /\ Len(pendingStackRef) >= 1
              /\ Len(pendingStackRef') = Len(pendingStackRef) - 1
              /\ pendingStackRef' = SubSeq(pendingStackRef, 1, Len(pendingStackRef) - 1)
        /\ last' = Did("onMovePending", "idle") =>
              /\ Len(pendingStackRef) = 0
              /\ dirty' = {}
              /\ UNCHANGED <<rows, cols, gridRef, tiles, pendingStackRef, moving,
                             pause, pauseRef, gameStatus, tileIndex, scoreDelta,
                             moves>> ]_vars

\* a completion arrived after a move had settled, with no move in flight
C17_Witness ==
    /\ last = Did("onMovePending", "idle")
    /\ moves = 1
    /\ TileCount(gridRef) = 3
    /\ tileIndex = 3

----------------------------------------------------------------------------
(* C18 *)

\* the largest count asked of the spawner
MaxCount == 4

\* C18: on the grid of every state, for every count and every run of draws,
\* the spawner creates exactly min(count, number of empty cells) tiles (none
\* on a full grid), on pairwise distinct cells that are empty, with
\* consecutive identities, each with isNew, without canMerge and with value
\* 2 or 4; and the finalize that spawns leaves every other cell as the merge
\* step made it: the new tiles sit on cells that were empty.
C18_SpawnExact ==
    /\ [](\A count \in 0..MaxCount : \A seed \in Seeds :
            LET emptyCells == getEmptyCellsLocation(gridRef)
                made == createRandomTiles(emptyCells, count, tileIndex, seed)
            IN  /\ Len(made) = Min2(count, EmptyCount(gridRef))
                /\ \A n \in 1..Len(made) :
                      /\ gridRef[made[n].r][made[n].c] = Nil
                      /\ made[n].index = tileIndex + n - 1
                      /\ made[n].isNew
                      /\ ~made[n].canMerge
                      /\ ~made[n].isMerging
                      /\ made[n].value \in {2, 4}
                /\ \A n, k \in 1..Len(made) :
                      n # k => <<made[n].r, made[n].c>> # <<made[k].r, made[k].c>>)
    /\ [][ last' = Settled =>
             \A p \in Cells(gridRef) :
                 IF gridRef[p[1]][p[2]] = Nil
                 THEN gridRef'[p[1]][p[2]] = Nil \/ gridRef'[p[1]][p[2]].isNew
                 ELSE /\ gridRef'[p[1]][p[2]].index = gridRef[p[1]][p[2]].index
                      /\ ~gridRef'[p[1]][p[2]].isNew ]_vars

\* a merge on a full board left one empty cell and the spawner filled it
C18_Witness ==
    /\ last = Settled
    /\ scoreDelta > 0
    /\ EmptyCount(gridRef) = 0
    /\ NewCount(gridRef) = 1
    /\ rows = 2

----------------------------------------------------------------------------
(* C19 *)

\* every tile of the grid has the edge or a tile next to it in direction dir
Compact(grid, dir) ==
    \A p \in Occupied(grid) :
        \/ p[1] + dir.r \notin DOMAIN grid
        \/ p[2] + dir.c \notin DOMAIN grid[0]
        \/ grid[p[1] + dir.r][p[2] + dir.c] # Nil

\* every tile of the list ts is in the row (dir horizontal) or the column
\* (dir vertical) that it has in the grid
KeepsLine(grid, ts, dir) ==
    \A n \in 1..Len(ts) :
        LET was == TileOf(grid, ts[n].index)
        IN  /\ dir.r = 0 => ts[n].r = was.r
            /\ dir.c = 0 => ts[n].c = was.c

\* C19: for the grid of every state and each of the four directions, the
\* grid moveInDirection returns is compacted towards the destination edge
\* (next to every tile, in the direction, is the edge or a tile) and every
\* tile stays in its row for a horizontal move and in its column for a
\* vertical move; the grid after every accepted move is such a grid.
C19_MoveCompacts ==
    /\ [](\A dir \in Directions :
            LET res == moveInDirection(gridRef, dir)
            IN  /\ Compact(res.grid, dir)
                /\ KeepsLine(gridRef, res.tiles, dir))
    /\ [][ last' \in {Moved, Still} =>
             \E dir \in Directions :
                 /\ gridRef' = moveInDirection(gridRef, dir).grid
                 /\ Compact(gridRef', dir) ]_vars

\* two tiles moved along a line of four cells and lie against its end
C19_Witness ==
    /\ rows = 1 /\ cols = 4
    /\ last = Moved
    /\ Len(pendingStackRef) = 2
    /\ TileCount(gridRef) = 2
    /\ gridRef[0][2] # Nil
    /\ gridRef[0][3] # Nil

----------------------------------------------------------------------------
(* C20 *)

\* the sum of the values of the tiles of a list
RECURSIVE SumList(_)
SumList(ts) == IF ts = <<>> THEN 0 ELSE ts[1].value + SumList(Tail(ts))

\* the cells that hold a tile flagged isNew
NewCells(grid) == {p \in Occupied(grid) : grid[p[1]][p[2]].isNew}

\* C20: a move and its settle conserve the total value. The tile list an
\* accepted move surfaces holds the total value of the grid before the move
\* (sliding loses none), and the grid after the finalize holds that total
\* plus the values of the tiles the finalize spawned (merging loses and
\* creates none).
C20_ValueConserved ==
    [][ /\ last' = Moved =>
              SumList(tiles') = SumValues(gridRef, Occupied(gridRef))
        /\ last' = Settled =>
              SumValues(gridRef', Occupied(gridRef')) =
                  SumList(tiles) + SumValues(gridRef', NewCells(gridRef')) ]_vars

\* a settle on the 2x2 board that merged two tiles of 4 and spawned a tile
C20_Witness ==
    /\ rows = 2 /\ cols = 2
    /\ last = Settled
    /\ scoreDelta = 8
    /\ Cardinality(Merging(gridRef)) = 1
    /\ Cardinality(NewCells(gridRef)) = 1

====
